---- MODULE Spec2Model ----
(***************************************************************************)
(* Model of the crop marketplace backend (src/index.js): the Crops         *)
(* collection of the document store, the route handlers that read and      *)
(* write it, and the requests in flight.  A handler that awaits the store  *)
(* more than once (submit interest) is one action per store operation, so  *)
(* that other requests interleave between its read and its write.          *)
(***************************************************************************)
EXTENDS Integers, Sequences, FiniteSets, TLC

\* ---------------------------------------------------------------- bounds
MaxCrops == 2          \* crop documents ever inserted
MaxInterests == 2      \* interests ever constructed by submit-interest requests
MaxReqs == 2           \* submit-interest requests in flight at once

\* ------------------------------------------------------------ identifiers
\* ObjectIds are modelled as positive integers; BadId is a string that
\* ObjectId.isValid rejects and new ObjectId() throws on.
BadId == 0
ForgedId == 9          \* an interest _id chosen by a caller in a request body

ObjectIdIsValid(id) == id # BadId

CropIds == 1..MaxCrops
InterestIds == (1..MaxInterests) \cup {ForgedId}
ReqSlots == 1..MaxReqs

\* ------------------------------------------------------------------ data
OwnerEmail == "a@x.com"
BuyerEmail == "b@x.com"
OtherEmail == "c@x.com"
Emails == {OwnerEmail, BuyerEmail}

Undefined == "undefined"     \* a JavaScript value that is absent
Null == "null"               \* what the driver stores for undefined

\* BSON serialisation of a field value: undefined is written as null.
Bson(v) == IF v = Undefined THEN Null ELSE v

\* Reading o.f in JavaScript: undefined when the field is absent.
Has(o, f) == f \in DOMAIN o
Field(o, f) == IF Has(o, f) THEN o[f] ELSE Undefined

\* !v for a string-valued and for a number-valued body field.
FalsyStr(o, f) == ~Has(o, f) \/ o[f] = ""
FalsyNum(o, f) == ~Has(o, f) \/ o[f] = 0

\* ------------------------------------------------------------- responses
NoResp == [status |-> 0, error |-> ""]
Ok == [status |-> 200, error |-> ""]
Err(code, msg) == [status |-> code, error |-> msg]

ErrUserInfo == Err(400, "User info required")
ErrQuantity == Err(400, "Quantity must be at least 1")
ErrCropNotFound == Err(404, "Crop not found")
ErrOwner == Err(403, "Owner cannot send interest")
ErrDuplicate == Err(400, "You've already sent an interest")
ErrSubmit == Err(500, "Failed to submit interest")
ErrInvalidIds == Err(400, "Invalid ID(s)")
ErrUpdateCrop == Err(500, "Failed to update crop")
ErrEmailRequired == Err(400, "Email is required")
ErrFetchInterests == Err(500, "Failed to fetch interests")

\* --------------------------------------------------------- request bodies
OwnerRec == [ownerEmail |-> OwnerEmail, ownerName |-> "A"]
BuyerRec == [ownerEmail |-> BuyerEmail, ownerName |-> "B"]

\* An interest written by a caller into a crop document or a $set body.
ForgedInterest(e) ==
    [_id |-> ForgedId, cropId |-> 1, userEmail |-> e, userName |-> "F",
     quantity |-> 1, message |-> Null, status |-> "pending", createdAt |-> 0]

\* Documents a caller posts to create a crop: with an empty interests
\* sequence, without the field, and with interests already filled in.
NewCropDocs ==
    { [name |-> "rice", owner |-> OwnerRec, interests |-> <<>>],
      [name |-> "rice", owner |-> OwnerRec],
      [name |-> "rice", owner |-> OwnerRec,
       interests |-> <<ForgedInterest(OtherEmail)>>] }

\* POST /api/crops takes one document or an array of documents.
CreateBodies ==
    { <<d>> : d \in NewCropDocs }
      \cup { << [name |-> "rice", owner |-> OwnerRec,
                 interests |-> <<ForgedInterest(OtherEmail)>>],
                [name |-> "rice", owner |-> OwnerRec] >> }

\* Bodies of PUT and PATCH /api/crops/:id: any fields the caller names.
UpdateBodies ==
    { [name |-> "wheat"],
      [owner |-> BuyerRec],
      [interests |-> <<>>],
      [interests |-> <<ForgedInterest(OwnerEmail)>>] }

\* Bodies of POST /api/crops/:id/interests that pass validation, one with
\* and one without the optional message.
ValidSubmitBodies ==
    { [userEmail |-> OwnerEmail, userName |-> "N", quantity |-> 2, message |-> "hi"],
      [userEmail |-> BuyerEmail, userName |-> "N", quantity |-> 1] }

\* Bodies with a field missing, empty, zero or negative.
InvalidSubmitBodies ==
    { [userName |-> "N", quantity |-> 1],
      [userEmail |-> "", userName |-> "N", quantity |-> 1],
      [userEmail |-> BuyerEmail, userName |-> "", quantity |-> 1],
      [userEmail |-> BuyerEmail, userName |-> "N"],
      [userEmail |-> BuyerEmail, userName |-> "N", quantity |-> 0],
      [userEmail |-> BuyerEmail, userName |-> "N", quantity |-> -1] }

\* Bodies of PATCH /api/crops/:cropId/interests/:interestId.
StatusBodies ==
    { [status |-> s] : s \in {"accepted", "rejected", "pending", "shipped"} }
      \cup { [other |-> "x"] }

\* ----------------------------------------------------------------- state
VARIABLES
    crops,            \* the Crops collection: _id -> document
    nextCropId,       \* the next ObjectId the store assigns to a crop
    nextInterestId,   \* the next ObjectId a submit-interest handler constructs
    reqs,             \* the submit-interest requests, by slot
    last,             \* the request handled by the latest step; a
                      \* submit-interest request keeps its own record in reqs
    client,           \* the store connection run() awaits
    cropsCollection   \* the module-level collection handle

vars == <<crops, nextCropId, nextInterestId, reqs, last, client, cropsCollection>>

\* What only run() writes.
startup == <<client, cropsCollection>>

IdleReq ==
    [pc |-> "idle", cropId |-> BadId, body |-> [userName |-> ""],
     newInterest |-> <<>>, resp |-> NoResp, peers |-> {}]

\* A request as its handler saw it, with the response it was sent: the path
\* identifiers, the requested status (status updates) and the response.
Request(op, cropId, interestId, status, resp) ==
    [op |-> op, cropId |-> cropId, interestId |-> interestId,
     status |-> status, resp |-> resp]

NoRequest == Request("none", BadId, BadId, "", NoResp)
SubmitStep == Request("submitInterest", BadId, BadId, "", NoResp)

Init ==
    /\ crops = <<>>
    /\ nextCropId = 1
    /\ nextInterestId = 1
    /\ reqs = [r \in ReqSlots |-> IdleReq]
    /\ last = NoRequest
    /\ client = "connecting"
    /\ cropsCollection = Undefined

\* ------------------------------------------------------------------ run()
\* client.connect() resolves: run() assigns the collection handle and then
\* registers the routes of its try block.
Run ==
    /\ client = "connecting"
    /\ client' = "connected"
    /\ cropsCollection' = "Crops"
    /\ UNCHANGED <<crops, nextCropId, nextInterestId, reqs, last>>

\* client.connect() rejects: the catch block logs the error; the handle is
\* never assigned and the routes of the try block are never registered.
RunFailed ==
    /\ client = "connecting"
    /\ client' = "failed"
    /\ UNCHANGED <<crops, nextCropId, nextInterestId, reqs, last, cropsCollection>>

\* The routes registered inside run() exist once it got past the connect.
Wired == client = "connected"

\* ------------------------------------------------------ store operations
\* updateOne(..., { $push: { interests: i } }) on one document: appends to
\* the array, creating it when the field is absent.
Push(doc, i) ==
    IF Has(doc, "interests")
    THEN [doc EXCEPT !.interests = Append(@, i)]
    ELSE [f \in DOMAIN doc \cup {"interests"} |->
             IF f = "interests" THEN <<i>> ELSE doc[f]]

\* updateOne(..., { $set: body }) on one document: every field of the body
\* replaces or creates the field of that name.
SetFields(doc, body) ==
    [f \in DOMAIN doc \cup DOMAIN body |->
        IF f \in DOMAIN body THEN body[f] ELSE doc[f]]

\* The filter { "interests._id": id }: some embedded interest has this _id.
MatchesInterest(doc, id) ==
    /\ Has(doc, "interests")
    /\ \E k \in 1..Len(doc.interests) : doc.interests[k]._id = id

\* The positional operator $: the index of the first array element that
\* matched the filter.
Position(doc, id) ==
    CHOOSE k \in 1..Len(doc.interests) :
        /\ doc.interests[k]._id = id
        /\ \A j \in 1..(k - 1) : doc.interests[j]._id # id

\* The update written with the all-positional operator $[] in place of $:
\* every element of the array gets the status.
SetStatusAll(doc, id, status) ==
    [doc EXCEPT !.interests =
        [k \in 1..Len(@) |-> [@[k] EXCEPT !.status = Bson(status)]]]

\* { $set: { "interests.$.status": status } } on a matched document.
SetStatus(doc, id, status) ==
    [doc EXCEPT !.interests[Position(doc, id)].status = Bson(status)]

\* ------------------------------------------------- POST /api/crops (create)
InsertAll(docs) ==
    [id \in DOMAIN crops \cup (nextCropId..(nextCropId + Len(docs) - 1)) |->
        IF id \in DOMAIN crops THEN crops[id] ELSE docs[id - nextCropId + 1]]

CreateCrop(docs) ==
    /\ Wired
    /\ nextCropId + Len(docs) - 1 <= MaxCrops
    /\ crops' = InsertAll(docs)
    /\ nextCropId' = nextCropId + Len(docs)
    /\ last' = Request("createCrop", BadId, BadId, "", Ok)
    /\ UNCHANGED <<nextInterestId, reqs, startup>>

\* -------------------------------- POST /api/crops/:id/interests (submit)
\* crop.owner?.ownerEmail === userEmail
IsOwner(crop, userEmail) ==
    /\ Has(crop, "owner")
    /\ Field(crop.owner, "ownerEmail") = userEmail

\* crop.interests?.find(i => i.userEmail === userEmail)
ExistingInterest(crop, userEmail) ==
    /\ Has(crop, "interests")
    /\ \E k \in 1..Len(crop.interests) : crop.interests[k].userEmail = userEmail

\* The timestamp new Date() returns: a logical clock that has advanced with
\* every interest constructed so far.
Now == nextInterestId

NewInterest(cropId, body) ==
    [_id |-> nextInterestId, cropId |-> cropId,
     userEmail |-> body.userEmail, userName |-> body.userName,
     quantity |-> body.quantity, message |-> Bson(Field(body, "message")),
     status |-> "pending", createdAt |-> Now]

\* The validation with the quantity test written as quantity < 0.
SubmitValidateNonNegative(cropId, body) ==
    IF FalsyStr(body, "userEmail") \/ FalsyStr(body, "userName") THEN ErrUserInfo
    ELSE IF ~Has(body, "quantity") \/ body.quantity < 0 THEN ErrQuantity
    ELSE IF ~ObjectIdIsValid(cropId) THEN ErrSubmit
    ELSE NoResp

\* The synchronous part of the handler: validation, then the findOne is
\* issued (new ObjectId(cropId) throws into the catch on a malformed id).
SubmitValidate(cropId, body) ==
    IF FalsyStr(body, "userEmail") \/ FalsyStr(body, "userName") THEN ErrUserInfo
    ELSE IF FalsyNum(body, "quantity") \/ body.quantity < 1 THEN ErrQuantity
    ELSE IF ~ObjectIdIsValid(cropId) THEN ErrSubmit
    ELSE NoResp

\* The requests in flight, other than slot r: those awaiting the store.
InFlight(r) == { s \in ReqSlots \ {r} : reqs[s].pc \in {"find", "push"} }

\* A request arrives in a free slot.  peers records which other slots hold
\* a request that was in flight at some moment this one was too.
SubmitStart(r, cropId, body) ==
    /\ Wired
    /\ reqs[r].pc \in {"idle", "done"}
    /\ LET resp == SubmitValidate(cropId, body)
           with == IF resp = NoResp THEN InFlight(r) ELSE {} IN
         reqs' = [s \in ReqSlots |->
                    IF s = r
                    THEN [pc |-> IF resp = NoResp THEN "find" ELSE "done",
                          cropId |-> cropId, body |-> body,
                          newInterest |-> <<>>, resp |-> resp, peers |-> with]
                    ELSE [reqs[s] EXCEPT !.peers =
                            IF s \in with THEN @ \cup {r} ELSE @ \ {r}]]
    /\ last' = SubmitStep
    /\ UNCHANGED <<crops, nextCropId, nextInterestId, startup>>

\* The checks with the duplicate check moved before the owner check.
SubmitCheckDuplicateFirst(cropId, userEmail) ==
    IF cropId \notin DOMAIN crops THEN ErrCropNotFound
    ELSE IF ExistingInterest(crops[cropId], userEmail) THEN ErrDuplicate
    ELSE IF IsOwner(crops[cropId], userEmail) THEN ErrOwner
    ELSE NoResp

\* What the handler answers from the document findOne returned, or NoResp
\* when it goes on to construct the interest.
SubmitCheck(cropId, userEmail) ==
    IF cropId \notin DOMAIN crops THEN ErrCropNotFound
    ELSE IF IsOwner(crops[cropId], userEmail) THEN ErrOwner
    ELSE IF ExistingInterest(crops[cropId], userEmail) THEN ErrDuplicate
    ELSE NoResp

\* The store answers findOne; the handler checks the document it got and
\* either responds or constructs the interest and issues the $push.
SubmitFind(r) ==
    /\ reqs[r].pc = "find"
    /\ LET q == reqs[r]
           resp == SubmitCheck(q.cropId, q.body.userEmail) IN
         /\ last' = SubmitStep
         /\ IF resp # NoResp
            THEN /\ reqs' = [reqs EXCEPT ![r].pc = "done", ![r].resp = resp]
                 /\ UNCHANGED nextInterestId
            ELSE /\ nextInterestId <= MaxInterests
                 /\ reqs' = [reqs EXCEPT ![r].pc = "push",
                                ![r].newInterest = NewInterest(q.cropId, q.body)]
                 /\ nextInterestId' = nextInterestId + 1
    /\ UNCHANGED <<crops, nextCropId, startup>>

\* The $push sent with the upsert option: a document is inserted when none
\* has this _id.
SubmitPushUpsert(r) ==
    /\ reqs[r].pc = "push"
    /\ LET q == reqs[r] IN
         /\ crops' = IF q.cropId \in DOMAIN crops
                     THEN [crops EXCEPT ![q.cropId] = Push(@, q.newInterest)]
                     ELSE [c \in DOMAIN crops \cup {q.cropId} |->
                              IF c = q.cropId THEN [interests |-> <<q.newInterest>>]
                              ELSE crops[c]]
         /\ reqs' = [reqs EXCEPT ![r].pc = "done", ![r].resp = Ok]
         /\ last' = SubmitStep
    /\ UNCHANGED <<nextCropId, nextInterestId, startup>>

\* The store applies the $push to the document with this _id, if there is
\* one, and the handler sends the interest it constructed.
SubmitPush(r) ==
    /\ reqs[r].pc = "push"
    /\ LET q == reqs[r] IN
         /\ crops' = IF q.cropId \in DOMAIN crops
                     THEN [crops EXCEPT ![q.cropId] = Push(@, q.newInterest)]
                     ELSE crops
         /\ reqs' = [reqs EXCEPT ![r].pc = "done", ![r].resp = Ok]
         /\ last' = SubmitStep
    /\ UNCHANGED <<nextCropId, nextInterestId, startup>>

\* ------------------- PATCH /api/crops/:cropId/interests/:interestId
\* The handler reads the path identifiers and the body; the identity of the
\* caller is no part of what it reads.
UpdateInterestStatus(cropId, interestId, body, caller) ==
    /\ Wired
    /\ IF ~ObjectIdIsValid(cropId) \/ ~ObjectIdIsValid(interestId)
       THEN /\ last' = Request("updateInterestStatus", cropId, interestId,
                               Field(body, "status"), ErrInvalidIds)
            /\ UNCHANGED crops
       ELSE /\ crops' = IF cropId \in DOMAIN crops
                           /\ MatchesInterest(crops[cropId], interestId)
                        THEN [crops EXCEPT ![cropId] =
                                 SetStatus(@, interestId, Field(body, "status"))]
                        ELSE crops
            /\ last' = Request("updateInterestStatus", cropId, interestId,
                               Field(body, "status"), Ok)
    /\ UNCHANGED <<nextCropId, nextInterestId, reqs, startup>>

\* ----------------------------------------- PUT, PATCH, DELETE /api/crops/:id
\* These routes are registered when the module loads, not by run().  A
\* handler without a try block that throws (cropsCollection is undefined, or
\* new ObjectId(id) rejects the id): the request gets no response, or the
\* framework's own error response.
UnhandledOutcomes == {NoResp, Err(500, "Internal Server Error")}

SetCrop(id, body) ==
    IF id \in DOMAIN crops
    THEN [crops EXCEPT ![id] = SetFields(@, body)]
    ELSE crops

ReplaceCrop(id, body) ==
    /\ IF cropsCollection = Undefined \/ ~ObjectIdIsValid(id)
       THEN /\ \E resp \in UnhandledOutcomes :
                  last' = Request("replaceCrop", id, BadId, "", resp)
            /\ UNCHANGED crops
       ELSE /\ crops' = SetCrop(id, body)
            /\ last' = Request("replaceCrop", id, BadId, "", Ok)
    /\ UNCHANGED <<nextCropId, nextInterestId, reqs, startup>>

PatchCrop(id, body) ==
    /\ IF cropsCollection = Undefined \/ ~ObjectIdIsValid(id)
       THEN /\ last' = Request("patchCrop", id, BadId, "", ErrUpdateCrop)
            /\ UNCHANGED crops
       ELSE /\ crops' = SetCrop(id, body)
            /\ last' = Request("patchCrop", id, BadId, "", Ok)
    /\ UNCHANGED <<nextCropId, nextInterestId, reqs, startup>>

DeleteCrop(id) ==
    /\ IF cropsCollection = Undefined \/ ~ObjectIdIsValid(id)
       THEN /\ \E resp \in UnhandledOutcomes :
                  last' = Request("deleteCrop", id, BadId, "", resp)
            /\ UNCHANGED crops
       ELSE /\ crops' = [c \in DOMAIN crops \ {id} |-> crops[c]]
            /\ last' = Request("deleteCrop", id, BadId, "", Ok)
    /\ UNCHANGED <<nextCropId, nextInterestId, reqs, startup>>

\* --------------------------------------------------- GET /api/my-interests
\* The record the handler builds from an interest i embedded in a crop.
InterestRecord(crop, i) ==
    [_id |-> i._id,
     cropName |-> Field(crop, "name"),
     ownerName |-> IF Has(crop, "owner") THEN Field(crop.owner, "ownerName")
                   ELSE Undefined,
     quantity |-> i.quantity, message |-> i.message, status |-> i.status]

\* The inner loop without its test of i.userEmail: a record for every
\* interest of the crop.
InterestRecordsUnfiltered(crop, email) ==
    [k \in 1..Len(crop.interests) |-> InterestRecord(crop, crop.interests[k])]

\* crop.interests.forEach: one record for every interest of this user.
InterestRecords(crop, email) ==
    LET mine == SelectSeq(crop.interests, LAMBDA i : i.userEmail = email) IN
      [k \in 1..Len(mine) |-> InterestRecord(crop, mine[k])]

\* allCrops.forEach over the documents find({ "interests.userEmail": email })
\* returned, taken in the order of their _id from c on.
RECURSIVE MyInterestsFrom(_, _)
MyInterestsFrom(email, c) ==
    IF c >= nextCropId THEN <<>>
    ELSE (IF c \in DOMAIN crops /\ ExistingInterest(crops[c], email)
          THEN InterestRecords(crops[c], email) ELSE <<>>)
         \o MyInterestsFrom(email, c + 1)

\* The handler: what it responds and the array it sends.
ListMyInterests(email) ==
    IF email = "" THEN [resp |-> ErrEmailRequired, body |-> <<>>]
    ELSE IF cropsCollection = Undefined
         THEN [resp |-> ErrFetchInterests, body |-> <<>>]
         ELSE [resp |-> Ok, body |-> MyInterestsFrom(email, 1)]

\* -------------------------------------------------------- specifications
RequestIds == CropIds \cup {BadId}

\* Submit-interest requests: a valid body for any crop identifier, and an
\* invalid body for the first crop.
SubmitRequests ==
    (RequestIds \X ValidSubmitBodies) \cup ({1} \X InvalidSubmitBodies)

\* Documents created with an empty interests sequence.
EmptyCropBodies ==
    { docs \in CreateBodies :
        \A k \in 1..Len(docs) : Has(docs[k], "interests") /\ docs[k].interests = <<>> }

\* Submission of interests: crops are created with no interests, any
\* submit-interest request may arrive while others are in flight, and crops
\* are deleted.
NextSubmit ==
    \/ Run
    \/ RunFailed
    \/ \E docs \in EmptyCropBodies : CreateCrop(docs)
    \/ \E r \in ReqSlots, q \in SubmitRequests : SubmitStart(r, q[1], q[2])
    \/ \E r \in ReqSlots : SubmitFind(r)
    \/ \E r \in ReqSlots : SubmitPush(r)
    \/ \E id \in RequestIds : DeleteCrop(id)

SpecSubmit == Init /\ [][NextSubmit]_vars

\* The catalog and the submission of interests: crops are created from any
\* document, replaced, patched and deleted while a submit-interest request
\* is in flight.
NextCatalog ==
    \/ Run
    \/ RunFailed
    \/ \E docs \in CreateBodies : CreateCrop(docs)
    \/ \E id \in RequestIds, body \in ValidSubmitBodies : SubmitStart(1, id, body)
    \/ SubmitFind(1)
    \/ SubmitPush(1)
    \/ \E id \in RequestIds, body \in UpdateBodies : ReplaceCrop(id, body)
    \/ \E id \in RequestIds, body \in UpdateBodies : PatchCrop(id, body)
    \/ \E id \in RequestIds : DeleteCrop(id)

SpecCatalog == Init /\ [][NextCatalog]_vars

\* Status-update requests: any status body from any caller for every
\* well-formed pair of identifiers, and one request for each malformed one.
StatusRequests ==
    ((CropIds \X InterestIds) \X StatusBodies \X Emails)
      \cup ({<<BadId, 1>>, <<1, BadId>>} \X {[status |-> "accepted"]} \X {OwnerEmail})

\* The interest ledger: crops are created together from an array of
\* documents, interests are submitted one request at a time and their
\* status is updated by any caller, and crops are deleted.
NextStatus ==
    \/ Run
    \/ RunFailed
    \/ \E docs \in { b \in CreateBodies : Len(b) > 1 } : CreateCrop(docs)
    \/ \E id \in CropIds, body \in ValidSubmitBodies : SubmitStart(1, id, body)
    \/ SubmitFind(1)
    \/ SubmitPush(1)
    \/ \E q \in StatusRequests : UpdateInterestStatus(q[1][1], q[1][2], q[2], q[3])
    \/ \E id \in CropIds : DeleteCrop(id)

SpecStatus == Init /\ [][NextStatus]_vars

\* Bodies of two buyers, neither of them the owner of a crop.
BuyerBodies ==
    { [userEmail |-> BuyerEmail, userName |-> "N", quantity |-> 1],
      [userEmail |-> OtherEmail, userName |-> "N", quantity |-> 2, message |-> "hi"] }

\* Documents created with no interests: the field absent or empty.
BareCropDocs ==
    { d \in NewCropDocs : IF Has(d, "interests") THEN d.interests = <<>> ELSE TRUE }

\* Status updates the owner sends for the interests of the ledger.
LedgerRequests ==
    (CropIds \X (1..MaxInterests))
       \X { [status |-> "accepted"], [status |-> "rejected"] } \X {OwnerEmail}

\* The ledger and its projection: crops are created one at a time with no
\* interests, two buyers submit interests one request at a time, the owner
\* accepts and rejects them, and crops are deleted.
NextProjection ==
    \/ Run
    \/ RunFailed
    \/ \E d \in BareCropDocs : CreateCrop(<<d>>)
    \/ \E id \in CropIds, body \in BuyerBodies : SubmitStart(1, id, body)
    \/ SubmitFind(1)
    \/ SubmitPush(1)
    \/ \E q \in LedgerRequests : UpdateInterestStatus(q[1][1], q[1][2], q[2], q[3])
    \/ \E id \in CropIds : DeleteCrop(id)

SpecProjection == Init /\ [][NextProjection]_vars

\* Repeated submission: one buyer sends submit-interest requests for the
\* crops, one after another or together, while crops are replaced and
\* deleted.
NextResubmit ==
    \/ Run
    \/ RunFailed
    \/ \E docs \in EmptyCropBodies : CreateCrop(docs)
    \/ \E r \in ReqSlots, id \in CropIds,
            body \in { b \in BuyerBodies : b.userEmail = BuyerEmail } :
          SubmitStart(r, id, body)
    \/ \E r \in ReqSlots : SubmitFind(r)
    \/ \E r \in ReqSlots : SubmitPush(r)
    \/ \E id \in CropIds, body \in UpdateBodies : ReplaceCrop(id, body)
    \/ \E id \in CropIds : DeleteCrop(id)

SpecResubmit == Init /\ [][NextResubmit]_vars

\* ------------------------------------------------------------ properties
\* The interests sequence of crop c in a collection: empty when the crop or
\* the field is absent.
InterestsIn(coll, c) ==
    IF c \in DOMAIN coll /\ Has(coll[c], "interests") THEN coll[c].interests ELSE <<>>

InterestsOf(c) == InterestsIn(crops, c)

\* How many interests of crop c carry this userEmail.
CountFor(c, e) ==
    Cardinality({ k \in 1..Len(InterestsOf(c)) : InterestsOf(c)[k].userEmail = e })

\* C1. Uniqueness: in every reachable state each crop's interests sequence
\* holds at most one interest per userEmail.
C1_Uniqueness ==
    \A c \in DOMAIN crops : \A j, k \in 1..Len(InterestsOf(c)) :
        j # k => InterestsOf(c)[j].userEmail # InterestsOf(c)[k].userEmail

\* A request that got past validation, the crop lookup and the owner check:
\* it was answered with the interest or as a duplicate.
PassedChecks(r) == reqs[r].pc = "done" /\ reqs[r].resp \in {Ok, ErrDuplicate}

\* C2. Race safety: of two submit-interest requests for the same crop and
\* userEmail that were in flight together and passed the crop and owner
\* checks, exactly one is answered with the interest and the other as a
\* duplicate, and the crop holds exactly one interest of that user.
C2_RaceSafety ==
    \A r1, r2 \in ReqSlots :
        ( /\ r1 # r2
          /\ r2 \in reqs[r1].peers
          /\ PassedChecks(r1) /\ PassedChecks(r2)
          /\ reqs[r1].cropId = reqs[r2].cropId
          /\ reqs[r1].body.userEmail = reqs[r2].body.userEmail
          /\ reqs[r1].cropId \in DOMAIN crops )
        => /\ {reqs[r1].resp, reqs[r2].resp} = {Ok, ErrDuplicate}
           /\ CountFor(reqs[r1].cropId, reqs[r1].body.userEmail) = 1

\* The step just taken handled a status-update request.
StatusStep == last'.op = "updateInterestStatus"

\* The interest of crop c with this _id is stored with a terminal status.
Terminal(c, i) ==
    \E k \in 1..Len(InterestsOf(c)) :
        /\ InterestsOf(c)[k]._id = i
        /\ InterestsOf(c)[k].status \in {"accepted", "rejected"}

\* The interest at position k of crop c is the same interest before and
\* after the step, and its status differs.
StatusChanged(c, k) ==
    /\ k <= Len(InterestsIn(crops', c))
    /\ InterestsIn(crops', c)[k]._id = InterestsOf(c)[k]._id
    /\ InterestsIn(crops', c)[k].status # InterestsOf(c)[k].status

\* C3. Transition finality: a status-update request on an interest whose
\* stored status is accepted or rejected is answered with a conflict (409)
\* and changes nothing, and a stored status changes only while it is
\* pending.
C3_TransitionFinality ==
    [][ /\ (StatusStep /\ Terminal(last'.cropId, last'.interestId))
              => (last'.resp.status = 409 /\ crops' = crops)
        /\ \A c \in DOMAIN crops : \A k \in 1..Len(InterestsOf(c)) :
              StatusChanged(c, k) => InterestsOf(c)[k].status = "pending"
      ]_vars

\* The caller of the request is not the owner of the crop it names.
NotOwner(c, caller) ==
    /\ c \in DOMAIN crops
    /\ ~(Has(crops[c], "owner") /\ crops[c].owner.ownerEmail = caller)

\* C4. Owner-only transition: a status-update request from a caller who is
\* not the owner of the crop it names is answered as forbidden (403) and
\* changes nothing, so that a status is changed only by a request from the
\* crop's owner.
C4_OwnerOnly ==
    [][ \A q \in StatusRequests :
          ( /\ UpdateInterestStatus(q[1][1], q[1][2], q[2], q[3])
            /\ NotOwner(q[1][1], q[3]) )
          => (last'.resp.status = 403 /\ crops' = crops)
      ]_vars

StatusDomain == {"pending", "accepted", "rejected"}

\* C5. Status domain: every stored interest's status is pending, accepted or
\* rejected (a request for any other status being refused as invalid).
C5_StatusDomain ==
    \A c \in DOMAIN crops : \A k \in 1..Len(InterestsOf(c)) :
        InterestsOf(c)[k].status \in StatusDomain

\* C8. Not found: a status-update request with well-formed identifiers that
\* names no stored crop, or a crop holding no interest with that _id, is
\* answered as not found (404) and changes nothing.
C8_NotFound ==
    [][ ( /\ StatusStep
          /\ ObjectIdIsValid(last'.cropId) /\ ObjectIdIsValid(last'.interestId)
          /\ \A k \in 1..Len(InterestsOf(last'.cropId)) :
                InterestsOf(last'.cropId)[k]._id # last'.interestId )
        => (last'.resp.status = 404 /\ crops' = crops)
      ]_vars

\* C9. Frame of a status update: a status-update request answered with
\* success changes nothing but the status of one interest with the given
\* _id in the given crop, which becomes the status requested; the other
\* fields of that interest, the other interests and their order, the crop's
\* other fields, the other crops and the requests in flight are unchanged.
C9_StatusFrame ==
    [][ (StatusStep /\ last'.resp = Ok)
        => LET c == last'.cropId
               i == last'.interestId
               old == InterestsOf(c) IN
           /\ UNCHANGED <<nextCropId, nextInterestId, reqs>>
           /\ \/ crops' = crops
              \/ \E k \in 1..Len(old) :
                    /\ old[k]._id = i
                    /\ crops' = [crops EXCEPT ![c].interests[k].status =
                                    InterestsIn(crops', c)[k].status]
           /\ \A k \in 1..Len(old) :
                (old[k]._id = i /\ \A j \in 1..(k - 1) : old[j]._id # i)
                   => crops'[c].interests[k].status = Bson(last'.status)
      ]_vars

\* A status update has succeeded on one of two interests of a crop, leaving
\* the other pending, while a second crop is stored.
C9_Witness ==
    /\ last.op = "updateInterestStatus" /\ last.resp = Ok
    /\ last.status = "accepted"
    /\ Cardinality(DOMAIN crops) = 2
    /\ Len(InterestsOf(last.cropId)) = 2
    /\ \E j, k \in 1..2 :
          /\ InterestsOf(last.cropId)[j]._id = last.interestId
          /\ InterestsOf(last.cropId)[j].status = "accepted"
          /\ InterestsOf(last.cropId)[k].status = "pending"

\* The store has answered the findOne of the request in slot r.
Answered(r) == reqs[r].pc = "find" /\ reqs'[r].pc # "find"

\* The document of crop c names this user as its owner.
OwnedBy(c, e) ==
    /\ c \in DOMAIN crops
    /\ Has(crops[c], "owner")
    /\ crops[c].owner.ownerEmail = e

\* C6. Owner exclusion on submission: a submit-interest request with valid
\* user fields and quantity, for a stored crop whose owner.ownerEmail is the
\* request's userEmail when the store reads it, is answered as forbidden
\* (403) and appends nothing.
C6_OwnerExclusion ==
    [][ \A r \in ReqSlots :
          (Answered(r) /\ OwnedBy(reqs[r].cropId, reqs[r].body.userEmail))
          => /\ reqs'[r].pc = "done"
             /\ reqs'[r].resp.status = 403
             /\ crops' = crops
      ]_vars

\* A request by the owner of a stored crop has been answered as forbidden.
C6_Witness ==
    \E r \in ReqSlots :
        /\ reqs[r].pc = "done"
        /\ reqs[r].resp = ErrOwner
        /\ OwnedBy(reqs[r].cropId, reqs[r].body.userEmail)

\* No stored interest carries the ownerEmail of the crop that embeds it.
NoOwnInterest ==
    \A c \in DOMAIN crops : \A k \in 1..Len(InterestsOf(c)) :
        ~OwnedBy(c, InterestsOf(c)[k].userEmail)

\* C7. Owner exclusion under all operations: no step changes the owner of a
\* stored crop, and no stored interest has the userEmail of its crop's
\* owner.
C7_OwnerInvariant ==
    [][ /\ \A c \in DOMAIN crops \cap DOMAIN crops' :
              crops'[c].owner = crops[c].owner
        /\ NoOwnInterest'
      ]_vars

\* The step appended to crop c the pending interest constructed by a
\* submit-interest request that it answered with success.
Submitted(c) ==
    \E r \in ReqSlots :
        /\ reqs[r].pc = "push" /\ reqs'[r].pc = "done" /\ reqs'[r].resp = Ok
        /\ reqs[r].cropId = c
        /\ reqs[r].newInterest.status = "pending"
        /\ InterestsIn(crops', c) = Append(InterestsOf(c), reqs[r].newInterest)

\* C10. Interest lifecycle is closed: a crop is created with no interests,
\* and a step that leaves a crop stored either leaves its interests
\* sequence as it was or is a successful submit-interest request appending
\* one pending interest at its end.
C10_LifecycleClosed ==
    [][ /\ \A c \in DOMAIN crops' \ DOMAIN crops : InterestsIn(crops', c) = <<>>
        /\ \A c \in DOMAIN crops \cap DOMAIN crops' :
              InterestsIn(crops', c) = InterestsOf(c) \/ Submitted(c)
      ]_vars

\* Every _id below nextCropId was assigned to an inserted crop: c was stored
\* and a delete-crop request removed it.
Deleted(c) == c < nextCropId /\ c \notin DOMAIN crops

Users == {OwnerEmail, BuyerEmail, OtherEmail}

\* The _ids of the interests submit-interest requests constructed for crop c.
ConstructedFor(c) ==
    { reqs[r].newInterest._id :
        r \in { s \in ReqSlots : /\ reqs[s].cropId = c
                                 /\ \/ reqs[s].pc = "push"
                                    \/ reqs[s].pc = "done" /\ reqs[s].resp = Ok } }

\* The store holds no interest of crop c: none embedded in a document with
\* that _id, none constructed for c by a submit-interest request in any
\* document, and no record of one in the interests listed for any user.
NoInterestOf(c) ==
    /\ InterestsOf(c) = <<>>
    /\ \A d \in DOMAIN crops : \A k \in 1..Len(InterestsOf(d)) :
          /\ InterestsOf(d)[k]._id \notin ConstructedFor(c)
          /\ InterestsOf(d)[k]._id # ForgedId => InterestsOf(d)[k].cropId # c
    /\ \A u \in Users :
          LET listed == ListMyInterests(u) IN
            /\ listed.resp = Ok
            /\ \A k \in 1..Len(listed.body) :
                  listed.body[k]._id \notin ConstructedFor(c)

\* C11. Cascade on delete: once a delete-crop request has removed crop c,
\* c stays removed and the store holds no interest of c in that state and in
\* every later one, whatever submit-interest and status-update requests on c
\* are in flight, and the interests listed for any user hold no record of c.
C11_CascadeOnDelete ==
    [][ \A c \in CropIds :
          /\ Deleted(c) => Deleted(c)'
          /\ Deleted(c)' => NoInterestOf(c)'
      ]_vars

\* Crop c was deleted while a submit-interest request for it awaited its
\* $push, the request has since been answered with its interest, and a
\* status update has been requested for that interest.
C11_Witness ==
    \E r \in ReqSlots :
        /\ reqs[r].pc = "done" /\ reqs[r].resp = Ok
        /\ Deleted(reqs[r].cropId)
        /\ last.op = "updateInterestStatus" /\ last.resp = Ok
        /\ last.cropId = reqs[r].cropId
        /\ last.interestId = reqs[r].newInterest._id

\* A submit-interest request arrives in slot r with this step.
Arrived(r) ==
    /\ reqs[r].pc \in {"idle", "done"}
    /\ <<reqs'[r].pc, reqs'[r].cropId, reqs'[r].body>>
          # <<reqs[r].pc, reqs[r].cropId, reqs[r].body>>

\* A body with its user fields filled in and quantity absent, 0 or negative.
BadQuantity(body) ==
    /\ ~FalsyStr(body, "userEmail") /\ ~FalsyStr(body, "userName")
    /\ ~Has(body, "quantity") \/ body.quantity <= 0

\* The request in slot r asks for quantity 1 of a stored crop that its user
\* does not own and has sent no interest for.
FirstUnit(r) ==
    /\ reqs[r].body.quantity = 1
    /\ reqs[r].cropId \in DOMAIN crops
    /\ ~IsOwner(crops[reqs[r].cropId], reqs[r].body.userEmail)
    /\ ~ExistingInterest(crops[reqs[r].cropId], reqs[r].body.userEmail)

\* C12. Quantity boundary: a submit-interest request whose quantity is
\* absent, 0 or negative is answered with a validation error (400) and
\* changes nothing in the store; a request with quantity 1 for a stored crop
\* by a user who is not its owner and has no interest in it constructs an
\* interest of quantity 1, and its $push on the stored crop appends that
\* interest and is answered with success.
C12_QuantityBoundary ==
    [][ \A r \in ReqSlots :
          /\ (Arrived(r) /\ BadQuantity(reqs'[r].body))
                => /\ reqs'[r].pc = "done"
                   /\ reqs'[r].resp.status = 400
                   /\ UNCHANGED <<crops, nextCropId, nextInterestId>>
          /\ (Answered(r) /\ FirstUnit(r))
                => /\ reqs'[r].pc = "push"
                   /\ reqs'[r].newInterest.quantity = 1
                   /\ crops' = crops
          /\ ( /\ reqs[r].pc = "push" /\ reqs'[r].pc = "done"
               /\ reqs[r].body.quantity = 1
               /\ reqs[r].cropId \in DOMAIN crops )
                => /\ reqs'[r].resp = Ok
                   /\ reqs[r].newInterest.quantity = 1
                   /\ InterestsIn(crops', reqs[r].cropId)
                        = Append(InterestsOf(reqs[r].cropId), reqs[r].newInterest)
      ]_vars

\* One request with quantity 0 has been refused and another with quantity 1
\* has been answered with its interest, which the crop holds.
C12_Witness ==
    \E r1, r2 \in ReqSlots :
        /\ reqs[r1].pc = "done" /\ reqs[r1].resp = ErrQuantity
        /\ Has(reqs[r1].body, "quantity") /\ reqs[r1].body.quantity = 0
        /\ reqs[r2].pc = "done" /\ reqs[r2].resp = Ok
        /\ reqs[r2].body.quantity = 1
        /\ \E k \in 1..Len(InterestsOf(reqs[r2].cropId)) :
              InterestsOf(reqs[r2].cropId)[k] = reqs[r2].newInterest

\* The positions in the array sent to user u of the records with this _id.
RecordsOf(u, id) ==
    { j \in 1..Len(ListMyInterests(u).body) : ListMyInterests(u).body[j]._id = id }

\* The interests stored for user u: crop and position.
LedgerOf(u) ==
    { ck \in (DOMAIN crops) \X (1..MaxInterests) :
        /\ ck[2] <= Len(InterestsOf(ck[1]))
        /\ InterestsOf(ck[1])[ck[2]].userEmail = u }

\* C13. Projection consistency: with interests submitted by distinct users
\* and statuses updated in any order, the interests listed for a user hold,
\* for every stored crop the user has an interest in, exactly one record of
\* that crop, and its status is the one stored; the list holds nothing else,
\* so a crop whose interests are absent or empty contributes no record, and
\* the query is answered with success whatever crops are stored.
C13_ProjectionConsistency ==
    \A u \in Users :
        /\ \A c \in DOMAIN crops :
              /\ ListMyInterests(u).resp = Ok
              /\ CountFor(c, u) <= 1
              /\ \A k \in 1..Len(InterestsOf(c)) :
                    InterestsOf(c)[k].userEmail = u
                    => /\ Cardinality(RecordsOf(u, InterestsOf(c)[k]._id)) = 1
                       /\ \A j \in RecordsOf(u, InterestsOf(c)[k]._id) :
                             ListMyInterests(u).body[j].status = InterestsOf(c)[k].status
        /\ Len(ListMyInterests(u).body) = Cardinality(LedgerOf(u))

\* Two buyers have submitted interests in one crop, the owner has accepted
\* one of them, a second crop is stored without an interests field, and the
\* list of the first buyer holds one record.
C13_Witness ==
    /\ \E c, d \in DOMAIN crops :
          /\ Len(InterestsOf(c)) = 2
          /\ InterestsOf(c)[1].userEmail # InterestsOf(c)[2].userEmail
          /\ \E k \in 1..2 : InterestsOf(c)[k].status = "accepted"
          /\ \E k \in 1..2 : InterestsOf(c)[k].status = "pending"
          /\ ~Has(crops[d], "interests")
    /\ Len(ListMyInterests(BuyerEmail).body) = 1
    /\ Len(ListMyInterests(OwnerEmail).body) = 0

\* A body with its user fields filled in and a quantity of at least 1.
ValidFields(body) ==
    /\ ~FalsyStr(body, "userEmail") /\ ~FalsyStr(body, "userName")
    /\ Has(body, "quantity") /\ body.quantity >= 1

\* C14. Identifier and existence errors on submission: a submit-interest
\* request with valid user fields and quantity is answered with a
\* validation error (400) when its cropId is malformed and as not found
\* (404) when the store holds no crop with that _id; neither is answered
\* with 500 and neither changes the store.
C14_IdentifierErrors ==
    [][ \A r \in ReqSlots :
          /\ ( /\ Arrived(r) /\ ValidFields(reqs'[r].body)
               /\ ~ObjectIdIsValid(reqs'[r].cropId) )
                => /\ reqs'[r].pc = "done"
                   /\ reqs'[r].resp.status = 400
                   /\ crops' = crops
          /\ (Answered(r) /\ reqs[r].cropId \notin DOMAIN crops)
                => /\ reqs'[r].pc = "done"
                   /\ reqs'[r].resp.status = 404
                   /\ crops' = crops
      ]_vars

\* A response that reports a failure: an error status and a message.
FailureResponse(resp) == resp.status >= 400 /\ resp.error # ""

\* The step handled a replace, partial-update or delete request whose
\* identifier new ObjectId() throws on, with the collection handle assigned.
ThrewOnId ==
    /\ UNCHANGED startup /\ Wired
    /\ last'.op \in {"replaceCrop", "patchCrop", "deleteCrop"}
    /\ ~ObjectIdIsValid(last'.cropId)

\* C15. Store failures are surfaced: a request whose store call throws on a
\* malformed identifier (replace, partial-update and delete crop, submit
\* interest) is answered with a failure response carrying an error message;
\* it is not left without a response nor answered with success, and the
\* store is unchanged.
C15_FailuresSurfaced ==
    [][ /\ ThrewOnId => (FailureResponse(last'.resp) /\ crops' = crops)
        /\ \A r \in ReqSlots :
              ( /\ Arrived(r) /\ ValidFields(reqs'[r].body)
                /\ ~ObjectIdIsValid(reqs'[r].cropId) )
              => (FailureResponse(reqs'[r].resp) /\ crops' = crops)
      ]_vars

\* The requests in slots r1 and r2 name the same crop and userEmail, both
\* have been answered, and they were never in flight together: one of them
\* started after the other had completed.
Sequential(r1, r2) ==
    /\ r1 # r2
    /\ reqs[r1].pc = "done" /\ reqs[r2].pc = "done"
    /\ ValidFields(reqs[r1].body) /\ ValidFields(reqs[r2].body)
    /\ reqs[r1].cropId = reqs[r2].cropId
    /\ reqs[r1].body.userEmail = reqs[r2].body.userEmail
    /\ r2 \notin reqs[r1].peers /\ r1 \notin reqs[r2].peers

\* C16. Sequential duplicate rejection: while the crop is stored, a
\* submit-interest request that starts after another for the same crop and
\* userEmail was answered with its interest is answered as a duplicate, so
\* that of two such requests never both are answered with an interest.
C16_SequentialDuplicate ==
    \A r1, r2 \in ReqSlots :
        (Sequential(r1, r2) /\ reqs[r1].cropId \in DOMAIN crops)
        => ~(reqs[r1].resp = Ok /\ reqs[r2].resp = Ok)

\* The step handled a request to accept or reject an interest that the
\* named crop holds.
DecisionStep ==
    /\ StatusStep
    /\ last'.status \in {"accepted", "rejected"}
    /\ last'.cropId \in DOMAIN crops
    /\ MatchesInterest(crops[last'.cropId], last'.interestId)

\* C17. Racing status changes: of two requests on the same pending
\* interest, one to accept and one to reject, applied in either order, the
\* one the store applies first finds the interest pending, succeeds and
\* stores its status; the other finds the opposite decision stored, is
\* answered with a conflict (409) and leaves the stored status as it is.
C17_RacingStatus ==
    [][ DecisionStep =>
          LET c == last'.cropId
              k == Position(crops[c], last'.interestId)
              stored == crops[c].interests[k].status IN
            /\ stored = "pending"
                  => /\ last'.resp = Ok
                     /\ crops'[c].interests[k].status = last'.status
            /\ (stored \in {"accepted", "rejected"} /\ stored # last'.status)
                  => /\ last'.resp.status = 409
                     /\ crops' = crops
      ]_vars

\* The step sent the request in slot r the interest it constructed.
SentInterest(r) ==
    reqs[r].pc = "push" /\ reqs'[r].pc = "done" /\ reqs'[r].resp = Ok

\* C18. Success means stored: when a submit-interest request is answered
\* with the interest it constructed, the crop it names is stored and its
\* interests sequence holds that interest, whatever delete, replace and
\* partial-update requests on the crop were handled meanwhile.
C18_SuccessMeansStored ==
    [][ \A r \in ReqSlots :
          SentInterest(r)
          => \E k \in 1..Len(InterestsIn(crops', reqs[r].cropId)) :
                InterestsIn(crops', reqs[r].cropId)[k] = reqs[r].newInterest
      ]_vars

\* The step is the run of a request handler: every step but the outcome of
\* the connect records the request it handled.
HandlerStep == UNCHANGED startup /\ last'.op # "none"

\* C19. Handle initialised before use: no request handler runs while
\* cropsCollection is unassigned, whether the connect is still pending or
\* has failed.
C19_HandleInitialised ==
    [][ HandlerStep => cropsCollection # Undefined ]_vars

====
